---- MODULE Spec2Model ----
(***************************************************************************)
(* The History Controller of the blur editor                               *)
(* (src/features/blur-generator/index.tsx): the seven live parameters, the *)
(* history sequence and its index, the isUndoing ref, and the debounce     *)
(* timers that the history effect creates and clears.                      *)
(*                                                                         *)
(* Scheduling: a handler (a setter, resetBlur, undo, redo, a timer         *)
(* callback) runs to completion and its state updates are rendered as one  *)
(* batch; when a dependency of the history effect changed, the effect      *)
(* (its cleanup first) runs before the next handler or timer callback.     *)
(* effectDue records that such a run is owed.                              *)
(***************************************************************************)
EXTENDS Integers, Sequences, FiniteSets, TLC

VARIABLES
    direction, height, precision, blur, easingType, preset, reverse,
    history,        \* useState<BlurState[]>([])
    historyIndex,   \* useState(-1), 0-based as in the source
    isUndoing,      \* useRef(false)
    timers,         \* the pending setTimeout calls of the history effect
    cleanupTimer,   \* the timer id the last effect run's cleanup closes over
    effectDue,      \* a render changed a dependency; the effect has not run yet
    threw,          \* a handler raised a TypeError
    edits,          \* number of user changes made so far (bounded by MaxEdits)
    burst,          \* the snapshots the user's changes produced since the last
                    \* timer firing or undo/redo, oldest first
    quiet,          \* time since the last handler or timer callback, up to MaxQuiet
    lastOp,         \* the last handler or timer callback that ran
    prev,           \* history, historyIndex, currentState and burst before lastOp ran
    memoized        \* the parameters the maskImage memo body last ran with

live == <<direction, height, precision, blur, easingType, preset, reverse>>
vars == <<direction, height, precision, blur, easingType, preset, reverse,
          history, historyIndex, isUndoing, timers, cleanupTimer, effectDue,
          threw, edits, burst, quiet, lastOp, prev, memoized>>

-----------------------------------------------------------------------------
(* Bounds of the model *)

MaxEdits == 3
TickMs == 150
MaxQuiet == 600
MaxLiveEdits == 2

-----------------------------------------------------------------------------
(* Program constants *)

DebounceMs == 300
HeightMin == 0
HeightMax == 100
PrecisionMin == 2
PrecisionMax == 20
BlurMin == 0
BlurMax == 50

DIRECTIONS == {"to top", "to bottom", "to right", "to left"}
EASING_TYPES == {"in", "out", "in-out"}
PRESETS == {"linear", "sine", "quad", "cubic", "quart", "quint", "expo", "circ"}

DEFAULT_STATE ==
    [direction |-> "to top", height |-> 50, precision |-> 6, blur |-> 15,
     easingType |-> "in", preset |-> "expo", reverse |-> FALSE]

RangeInputUnclamped(v, min, max) == v

(* <input type="range" min max step=1>: wherever the thumb is dragged, the *)
(* value the change event carries lies between min and max                 *)
RangeInput(v, min, max) == IF v < min THEN min ELSE IF v > max THEN max ELSE v

(* The values the user picks in the model: a sample of each control's      *)
(* range, the sliders also dragged past an end of their track              *)
DirectionInputs == {"to top", "to bottom"}
HeightInputs ==
    {RangeInput(v, HeightMin, HeightMax) : v \in {DEFAULT_STATE.height, HeightMax + 1}}
PrecisionInputs ==
    {RangeInput(v, PrecisionMin, PrecisionMax) : v \in {0, DEFAULT_STATE.precision}}
BlurInputs ==
    {RangeInput(v, BlurMin, BlurMax) : v \in {DEFAULT_STATE.blur, BlurMax + 1}}
EasingTypeInputs == {"in", "out"}
PresetInputs == {"expo", "linear"}

NoTimer == 0
Undefined == [undefined |-> TRUE]

-----------------------------------------------------------------------------
(* Pure helpers *)

Min(a, b) == IF a < b THEN a ELSE b
Max(a, b) == IF a > b THEN a ELSE b

(* useMemo: the snapshot composed of the seven live parameters *)
currentState ==
    [direction |-> direction, height |-> height, precision |-> precision,
     blur |-> blur, easingType |-> easingType, preset |-> preset,
     reverse |-> reverse]

JSONstringifyWithoutBlur(s) ==
    IF s = Undefined THEN <<>>
    ELSE <<"direction", s.direction, "height", s.height, "precision", s.precision,
           "easingType", s.easingType, "preset", s.preset, "reverse", s.reverse>>

(* JSON.stringify of a snapshot: its values in key order; undefined has no text *)
JSONstringify(s) ==
    IF s = Undefined THEN <<>>
    ELSE <<"direction", s.direction, "height", s.height, "precision", s.precision,
           "blur", s.blur, "easingType", s.easingType, "preset", s.preset,
           "reverse", s.reverse>>

(* Array.prototype.slice(0, end) on a 1-based sequence *)
Slice0(arr, end) ==
    LET e == IF end < 0 THEN Max(Len(arr) + end, 0) ELSE Min(end, Len(arr))
    IN  SubSeq(arr, 1, e)

(* arr[i] for a 0-based index i; undefined outside the array *)
At(arr, i) == IF i >= 0 /\ i < Len(arr) THEN arr[i + 1] ELSE Undefined

DepsWithoutState(state, hist, idx) == <<Len(hist), idx>>

DepsWithoutIndex(state, hist, idx) == <<state, Len(hist)>>

(* The effect's dependency array [currentState, history.length, historyIndex] *)
Deps(state, hist, idx) == <<state, Len(hist), idx>>

-----------------------------------------------------------------------------
(* Numbers.  A finite double d in [0, 1] is the record [q, x] with          *)
(* q = floor(d * Scale) and x = (d = q / Scale exactly); -0 is 0.  NaN and  *)
(* the string Object.prototype.toString returns are values of their own.    *)
(* The argument t = i / precision is carried as k = 60 * i / precision, so  *)
(* the model covers the precisions that divide 60.                          *)

Scale == 1000000000
PosScale == 10000000
Sixtieths == 60

NaN == [nan |-> TRUE]
TypeError == [error |-> "TypeError"]
ObjectObject == [str |-> "[object Object]"]

Zero == [q |-> 0, x |-> TRUE]
One == [q |-> Scale, x |-> TRUE]

IsNumber(v) == DOMAIN v = {"q", "x"}

(* i / precision: 0 / 0 is NaN *)
Divide(i, p) ==
    IF p = 0 THEN NaN ELSE [k |-> (i * Sixtieths) \div p]

(* The easing curves of blur-utils.ts evaluated in double arithmetic at    *)
(* t = k / 60, k = 0..60: q as above, exact the set of k whose value is a  *)
(* multiple of 1 / Scale                                                    *)

Linear ==
    [q |-> <<
        0, 16666666, 33333333, 50000000, 66666666, 83333333, 100000000,
        116666666, 133333333, 149999999, 166666666, 183333333, 200000000,
        216666666, 233333333, 250000000, 266666666, 283333333, 299999999,
        316666666, 333333333, 349999999, 366666666, 383333333, 400000000,
        416666666, 433333333, 450000000, 466666666, 483333333, 500000000,
        516666666, 533333333, 550000000, 566666666, 583333333, 599999999,
        616666666, 633333333, 650000000, 666666666, 683333333, 699999999,
        716666666, 733333333, 750000000, 766666666, 783333333, 800000000,
        816666666, 833333333, 849999999, 866666666, 883333333, 900000000,
        916666666, 933333333, 949999999, 966666666, 983333333, 1000000000>>,
     exact |-> {0, 15, 30, 45, 60}]

SineIn ==
    [q |-> <<
        0, 342675, 1370465, 3082666, 5478104, 8555138, 12311659, 16745092,
        21852399, 27630079, 34074173, 41180265, 48943483, 57358508, 66419573,
        76120467, 86454542, 97414715, 108993475, 121182887, 133974596,
        147359835, 161329432, 175873811, 190983005, 206646659, 222854038,
        239594034, 256855174, 274625628, 292893218, 311645424, 330869393,
        350551951, 370679608, 391238570, 412214747, 433593763, 455360964,
        477501435, 499999999, 522841239, 546009500, 569488903, 593263356,
        617316567, 641632050, 666193140, 690983005, 715984655, 741180954,
        766554636, 792088309, 817764474, 843565534, 869473807, 895471536,
        921540904, 947664043, 973823051, 999999999>>,
     exact |-> {0}]

SineOut ==
    [q |-> <<
        0, 26176948, 52335956, 78459095, 104528463, 130526192, 156434465,
        182235525, 207911690, 233445363, 258819045, 284015344, 309016994,
        333806859, 358367949, 382683432, 406736643, 430511096, 453990499,
        477158760, 499999999, 522498564, 544639035, 566406236, 587785252,
        608761429, 629320391, 649448048, 669130606, 688354575, 707106781,
        725374371, 743144825, 760405965, 777145961, 793353340, 809016994,
        824126188, 838670567, 852640164, 866025403, 878817112, 891006524,
        902585284, 913545457, 923879532, 933580426, 942641491, 951056516,
        958819734, 965925826, 972369920, 978147600, 983254907, 987688340,
        991444861, 994521895, 996917333, 998629534, 999657324, 1000000000>>,
     exact |-> {0, 60}]

SineInOut ==
    [q |-> <<
        0, 685232, 2739052, 6155829, 10926199, 17037086, 24471741, 33209786,
        43227271, 54496737, 66987298, 80664716, 95491502, 111427019,
        128427587, 146446609, 165434696, 185339804, 206107373, 227680482,
        249999999, 273004750, 296631678, 320816025, 345491502, 370590477,
        396044154, 421782767, 447735768, 473832021, 499999999, 526167978,
        552264231, 578217232, 603955845, 629409522, 654508497, 679183974,
        703368321, 726995249, 749999999, 772319517, 793892626, 814660195,
        834565303, 853553390, 871572412, 888572980, 904508497, 919335283,
        933012701, 945503262, 956772728, 966790213, 975528258, 982962913,
        989073800, 993844170, 997260947, 999314767, 1000000000>>,
     exact |-> {0, 60}]

QuadIn ==
    [q |-> <<
        0, 277777, 1111111, 2500000, 4444444, 6944444, 10000000, 13611111,
        17777777, 22499999, 27777777, 33611111, 40000000, 46944444, 54444444,
        62500000, 71111111, 80277777, 89999999, 100277777, 111111111,
        122499999, 134444444, 146944444, 160000000, 173611111, 187777777,
        202500000, 217777777, 233611111, 250000000, 266944444, 284444444,
        302500000, 321111111, 340277777, 359999999, 380277777, 401111111,
        422500000, 444444444, 466944444, 489999999, 513611111, 537777777,
        562500000, 587777777, 613611111, 640000000, 666944444, 694444444,
        722499999, 751111111, 780277777, 810000000, 840277777, 871111111,
        902499999, 934444444, 966944444, 1000000000>>,
     exact |-> {0, 15, 30, 45, 60}]

QuadOut ==
    [q |-> <<
        0, 33055555, 65555555, 97500000, 128888888, 159722222, 189999999,
        219722222, 248888888, 277500000, 305555555, 333055555, 359999999,
        386388888, 412222222, 437500000, 462222222, 486388888, 510000000,
        533055555, 555555555, 577499999, 598888888, 619722222, 640000000,
        659722222, 678888888, 697500000, 715555555, 733055555, 750000000,
        766388888, 782222222, 797500000, 812222222, 826388888, 839999999,
        853055555, 865555555, 877500000, 888888888, 899722222, 909999999,
        919722222, 928888888, 937500000, 945555555, 953055555, 959999999,
        966388888, 972222222, 977500000, 982222222, 986388888, 989999999,
        993055555, 995555555, 997499999, 998888888, 999722222, 1000000000>>,
     exact |-> {0, 15, 30, 45, 60}]

QuadInOut ==
    [q |-> <<
        0, 555555, 2222222, 5000000, 8888888, 13888888, 20000000, 27222222,
        35555555, 44999999, 55555555, 67222222, 80000000, 93888888, 108888888,
        125000000, 142222222, 160555555, 179999999, 200555555, 222222222,
        244999999, 268888888, 293888888, 320000000, 347222222, 375555555,
        405000000, 435555555, 467222222, 500000000, 532777777, 564444444,
        595000000, 624444444, 652777777, 679999999, 706111111, 731111111,
        755000000, 777777777, 799444444, 819999999, 839444444, 857777777,
        875000000, 891111111, 906111111, 920000000, 932777777, 944444444,
        954999999, 964444444, 972777777, 979999999, 986111111, 991111111,
        994999999, 997777777, 999444444, 1000000000>>,
     exact |-> {0, 15, 30, 45, 60}]

CubicIn ==
    [q |-> <<
        0, 4629, 37037, 125000, 296296, 578703, 1000000, 1587962, 2370370,
        3374999, 4629629, 6162037, 8000000, 10171296, 12703703, 15625000,
        18962962, 22745370, 26999999, 31754629, 37037037, 42874999, 49296296,
        56328703, 64000000, 72337962, 81370370, 91125000, 101629629,
        112912037, 125000000, 137921296, 151703703, 166375000, 181962962,
        198495370, 215999999, 234504629, 254037037, 274625000, 296296296,
        319078703, 342999999, 368087962, 394370370, 421875000, 450629629,
        480662037, 512000000, 544671296, 578703703, 614124999, 650962962,
        689245370, 729000000, 770254629, 813037037, 857374999, 903296296,
        950828703, 1000000000>>,
     exact |-> {0, 15, 30, 45, 60}]

CubicOut ==
    [q |-> <<
        0, 49171296, 96703703, 142625000, 186962962, 229745370, 270999999,
        310754629, 349037037, 385875000, 421296296, 455328703, 487999999,
        519337962, 549370370, 578125000, 605629629, 631912037, 657000000,
        680921296, 703703703, 725374999, 745962962, 765495370, 784000000,
        801504629, 818037037, 833624999, 848296296, 862078703, 875000000,
        887087962, 898370370, 908874999, 918629629, 927662037, 935999999,
        943671296, 950703703, 957125000, 962962962, 968245370, 972999999,
        977254629, 981037037, 984375000, 987296296, 989828703, 991999999,
        993837962, 995370370, 996624999, 997629629, 998412037, 998999999,
        999421296, 999703703, 999874999, 999962962, 999995370, 1000000000>>,
     exact |-> {0, 15, 30, 45, 60}]

CubicInOut ==
    [q |-> <<
        0, 18518, 148148, 500000, 1185185, 2314814, 4000000, 6351851, 9481481,
        13499999, 18518518, 24648148, 32000000, 40685185, 50814814, 62500000,
        75851851, 90981481, 107999999, 127018518, 148148148, 171499999,
        197185185, 225314814, 256000000, 289351851, 325481481, 364500000,
        406518518, 451648148, 500000000, 548351851, 593481481, 635500000,
        674518518, 710648148, 743999999, 774685185, 802814814, 828500000,
        851851851, 872981481, 891999999, 909018518, 924148148, 937500000,
        949185185, 959314814, 967999999, 975351851, 981481481, 986500000,
        990518518, 993648148, 995999999, 997685185, 998814814, 999499999,
        999851851, 999981481, 1000000000>>,
     exact |-> {0, 15, 30, 45, 60}]

QuartIn ==
    [q |-> <<
        0, 77, 1234, 6250, 19753, 48225, 100000, 185262, 316049, 506249,
        771604, 1129706, 1600000, 2203780, 2964197, 3906250, 5056790, 6444521,
        8099999, 10055632, 12345679, 15006249, 18075308, 21592669, 25600000,
        30140817, 35260493, 41006250, 47427160, 54574151, 62500000, 71259336,
        80908641, 91506250, 103112345, 115788966, 129599999, 144611188,
        160890123, 178506250, 197530864, 218037114, 240099999, 263796373,
        289204938, 316406250, 345482716, 376518595, 409600000, 444814891,
        482253086, 522006249, 564167901, 608833410, 656100000, 706066743,
        758834567, 814506249, 873186419, 934981558, 1000000000>>,
     exact |-> {0, 15, 30, 45, 60}]

QuartOut ==
    [q |-> <<
        0, 65018441, 126813580, 185493750, 241165432, 293933256, 343899999,
        391166589, 435832098, 477993750, 517746913, 555185108, 590399999,
        623481404, 654517283, 683593750, 710795061, 736203626, 759900000,
        781962885, 802469135, 821493749, 839109876, 855388811, 870400000,
        884211033, 896887654, 908493749, 919091358, 928740663, 937500000,
        945425848, 952572839, 958993749, 964739506, 969859182, 974400000,
        978407330, 981924691, 984993750, 987654320, 989944367, 991900000,
        993555478, 994943209, 996093750, 997035802, 997796219, 998399999,
        998870293, 999228395, 999493749, 999683950, 999814737, 999900000,
        999951774, 999980246, 999993750, 999998765, 999999922, 1000000000>>,
     exact |-> {0, 15, 30, 45, 60}]

QuartInOut ==
    [q |-> <<
        0, 617, 9876, 50000, 158024, 385802, 800000, 1482098, 2528395,
        4049999, 6172839, 9037654, 12800000, 17630246, 23713580, 31250000,
        40454320, 51556172, 64799999, 80445061, 98765432, 120049999,
        144602469, 172741358, 204800000, 241126543, 282083950, 328050000,
        379417283, 436593209, 500000000, 563406790, 620582716, 671950000,
        717916049, 758873456, 795199999, 827258641, 855397530, 879950000,
        901234567, 919554938, 935199999, 948443827, 959545679, 968750000,
        976286419, 982369753, 987199999, 990962345, 993827160, 995950000,
        997471604, 998517901, 999199999, 999614197, 999841975, 999950000,
        999990123, 999999382, 1000000000>>,
     exact |-> {0, 15, 30, 45, 60}]

QuintIn ==
    [q |-> <<
        0, 1, 41, 312, 1316, 4018, 10000, 21613, 42139, 75937, 128600, 207112,
        320000, 477485, 691646, 976562, 1348477, 1825947, 2429999, 3184283,
        4115226, 5252187, 6627613, 8277190, 10240000, 12558674, 15279547,
        18452812, 22132674, 26377506, 31250000, 36817323, 43151275, 50328437,
        58430329, 67543563, 77759999, 89176899, 101897078, 116029062,
        131687242, 148992028, 168069999, 189054067, 212083621, 237304687,
        264870082, 294939566, 327680000, 363265495, 401877572, 443705312,
        488945514, 537802845, 590490000, 647227848, 708245596, 773780937,
        844080205, 919398532, 1000000000>>,
     exact |-> {0, 30, 60}]

QuintOut ==
    [q |-> <<
        0, 80601467, 155919794, 226219062, 291754403, 352772151, 409509999,
        462197154, 511054485, 556294687, 598122427, 636734504, 672319999,
        705060433, 735129917, 762695312, 787916378, 810945932, 831930000,
        851007971, 868312757, 883970937, 898102921, 910823100, 922240000,
        932456436, 941569670, 949671562, 956848724, 963182676, 968750000,
        973622493, 977867325, 981547187, 984720452, 987441325, 989759999,
        991722809, 993372386, 994747812, 995884773, 996815716, 997569999,
        998174052, 998651522, 999023437, 999308353, 999522514, 999680000,
        999792887, 999871399, 999924062, 999957860, 999978386, 999990000,
        999995981, 999998683, 999999687, 999999958, 999999998, 1000000000>>,
     exact |-> {0, 30, 60}]

QuintInOut ==
    [q |-> <<
        0, 20, 658, 5000, 21069, 64300, 160000, 345823, 674238, 1214999,
        2057613, 3313806, 5120000, 7639773, 11066337, 15625000, 21575637,
        29215164, 38879999, 50948539, 65843621, 84034999, 106041810,
        132435041, 163840000, 200938786, 244472757, 295245000, 354122798,
        422040102, 500000000, 577959897, 645877201, 704755000, 755527242,
        799061213, 836160000, 867564958, 893958189, 915965000, 934156378,
        949051460, 961119999, 970784835, 978424362, 984375000, 988933662,
        992360226, 994879999, 996686193, 997942386, 998785000, 999325761,
        999654176, 999839999, 999935699, 999978930, 999994999, 999999341,
        999999979, 1000000000>>,
     exact |-> {0, 15, 30, 45, 60}]

ExpoIn ==
    [q |-> <<
        0, 1096154, 1230391, 1381067, 1550196, 1740036, 1953125, 2192308,
        2460783, 2762135, 3100392, 3480073, 3906250, 4384617, 4921566,
        5524271, 6200785, 6960146, 7812500, 8769234, 9843133, 11048543,
        12401570, 13920292, 15625000, 17538469, 19686266, 22097086, 24803141,
        27840584, 31250000, 35076939, 39372532, 44194173, 49606282, 55681169,
        62500000, 70153878, 78745065, 88388347, 99212565, 111362339,
        125000000, 140307756, 157490131, 176776695, 198425131, 222724679,
        250000000, 280615512, 314980262, 353553390, 396850262, 445449359,
        500000000, 561231024, 629960524, 707106781, 793700525, 890898718,
        1000000000>>,
     exact |-> {0, 6, 12, 18, 24, 30, 36, 42, 48, 54, 60}]

ExpoOut ==
    [q |-> <<
        0, 109101281, 206299474, 292893218, 370039475, 438768975, 500000000,
        554550640, 603149737, 646446609, 685019737, 719384487, 750000000,
        777275320, 801574868, 823223304, 842509868, 859692243, 875000000,
        888637660, 900787434, 911611652, 921254934, 929846121, 937500000,
        944318830, 950393717, 955805826, 960627467, 964923060, 968750000,
        972159415, 975196858, 977902913, 980313733, 982461530, 984375000,
        986079707, 987598429, 988951456, 990156866, 991230765, 992187500,
        993039853, 993799214, 994475728, 995078433, 995615382, 996093750,
        996519926, 996899607, 997237864, 997539216, 997807691, 998046875,
        998259963, 998449803, 998618932, 998769608, 998903845, 1000000000>>,
     exact |-> {0, 6, 12, 18, 24, 30, 36, 42, 48, 54, 60}]

ExpoInOut ==
    [q |-> <<
        0, 615195, 775098, 976562, 1230391, 1550196, 1953125, 2460783,
        3100392, 3906250, 4921566, 6200785, 7812500, 9843133, 12401570,
        15625000, 19686266, 24803141, 31250000, 39372532, 49606282, 62500000,
        78745065, 99212565, 125000000, 157490131, 198425131, 250000000,
        314980262, 396850262, 500000000, 603149737, 685019737, 750000000,
        801574868, 842509868, 875000000, 900787434, 921254934, 937500000,
        950393717, 960627467, 968750000, 975196858, 980313733, 984375000,
        987598429, 990156866, 992187500, 993799214, 995078433, 996093750,
        996899607, 997539216, 998046875, 998449803, 998769608, 999023437,
        999224901, 999384804, 1000000000>>,
     exact |-> {0, 6, 9, 12, 15, 18, 21, 24, 27, 30, 33, 36, 39, 42, 45, 48, 51, 54, 60}]

CircIn ==
    [q |-> <<
        0, 138898, 555709, 1250782, 2224696, 3478271, 5012562, 6828872,
        8928750, 11314003, 13986702, 16949193, 20204102, 23754356, 27603190,
        31754163, 36211180, 40978507, 46060798, 51463114, 57190958, 63250300,
        69647617, 76389933, 83484861, 90940657, 98766277, 106971445,
        115566722, 124563600, 133974596, 143813364, 154094830, 164835345,
        176052860, 187767137, 199999999, 212775621, 226120882, 240065792,
        254644007, 269893462, 285857157, 302584134, 320130731, 338562172,
        357954657, 378398126, 400000000, 422890343, 447229201, 473217312,
        501112348, 531254629, 564110105, 600347373, 640989012, 687750100,
        743961808, 818188131, 1000000000>>,
     exact |-> {0, 60}]

CircOut ==
    [q |-> <<
        0, 181811868, 256038191, 312249899, 359010987, 399652626, 435889894,
        468745370, 498887651, 526782687, 552770798, 577109656, 599999999,
        621601873, 642045342, 661437827, 679869268, 697415865, 714142842,
        730106537, 745355992, 759934207, 773879117, 787224378, 800000000,
        812232862, 823947139, 835164654, 845905169, 856186635, 866025403,
        875436399, 884433277, 893028554, 901233722, 909059342, 916515138,
        923610066, 930352382, 936749699, 942809041, 948536885, 953939201,
        959021492, 963788819, 968245836, 972396809, 976245643, 979795897,
        983050806, 986013297, 988685996, 991071249, 993171127, 994987437,
        996521728, 997775303, 998749217, 999444290, 999861101, 1000000000>>,
     exact |-> {0, 60}]

CircInOut ==
    [q |-> <<
        0, 277854, 1112348, 2506281, 4464375, 6993351, 10102051, 13801595,
        18105590, 23030399, 28595479, 34823808, 41742430, 49383138, 57783361,
        66987298, 77047415, 88026430, 99999999, 113060441, 127322003,
        142928578, 160065365, 178977328, 200000000, 223614600, 250556174,
        282055052, 320494506, 371980904, 500000000, 628019095, 679505493,
        717944947, 749443825, 776385399, 799999999, 821022671, 839934634,
        857071421, 872677996, 886939558, 899999999, 911973569, 922952584,
        933012701, 942216638, 950616861, 958257569, 965176191, 971404520,
        976969600, 981894409, 986198404, 989897948, 993006648, 995535624,
        997493718, 998887651, 999722145, 1000000000>>,
     exact |-> {0, 30, 60}]

easings ==
    [linear |-> Linear,
     sine  |-> ("in" :> SineIn  @@ "out" :> SineOut  @@ "in-out" :> SineInOut),
     quad  |-> ("in" :> QuadIn  @@ "out" :> QuadOut  @@ "in-out" :> QuadInOut),
     cubic |-> ("in" :> CubicIn @@ "out" :> CubicOut @@ "in-out" :> CubicInOut),
     quart |-> ("in" :> QuartIn @@ "out" :> QuartOut @@ "in-out" :> QuartInOut),
     quint |-> ("in" :> QuintIn @@ "out" :> QuintOut @@ "in-out" :> QuintInOut),
     expo  |-> ("in" :> ExpoIn  @@ "out" :> ExpoOut  @@ "in-out" :> ExpoInOut),
     circ  |-> ("in" :> CircIn  @@ "out" :> CircOut  @@ "in-out" :> CircInOut)]

(* Members every object inherits from Object.prototype, as far as the      *)
(* model's inputs name them                                                *)
ObjectPrototype == {"toString"}

(* obj[key]: an own property, else an inherited one, else undefined *)
Get(obj, key) ==
    IF key \in DOMAIN obj THEN obj[key]
    ELSE IF key \in ObjectPrototype THEN [builtin |-> key]
    ELSE Undefined

(* fn(t) for what Get returned: calling undefined raises a TypeError,      *)
(* Object.prototype.toString answers "[object Object]", a curve answers    *)
(* its value at t, which is NaN for t = NaN                                *)
Call(fn, t) ==
    IF fn = Undefined THEN TypeError
    ELSE IF "builtin" \in DOMAIN fn THEN ObjectObject
    ELSE IF t = NaN THEN NaN
    ELSE [q |-> fn.q[t.k + 1], x |-> t.k \in fn.exact]

getEasing(pre, type, t) ==
    IF pre = "linear" THEN Call(easings.linear, t)
    ELSE LET curve == Get(easings, pre)
         IN  IF curve = Undefined THEN TypeError
             ELSE Call(Get(curve, type), t)

-----------------------------------------------------------------------------
(* The stop synthesis of the maskImage memo *)

CurveName(pre, type) ==
    IF pre = "linear" THEN "linear" ELSE pre \o "." \o type

(* 1 - f(t) as the double subtraction rounds it, for the curve values whose *)
(* difference from 1 rounds onto or across a multiple of 1 / Scale         *)
OneMinusRounded ==
    <<"linear", 6>> :> [q |-> 900000000, x |-> FALSE]
    @@ <<"linear", 9>> :> [q |-> 849999999, x |-> FALSE]
    @@ <<"linear", 12>> :> [q |-> 800000000, x |-> FALSE]
    @@ <<"linear", 18>> :> [q |-> 699999999, x |-> FALSE]
    @@ <<"linear", 27>> :> [q |-> 550000000, x |-> FALSE]
    @@ <<"sine.out", 20>> :> [q |-> 500000000, x |-> TRUE]
    @@ <<"sine.in-out", 20>> :> [q |-> 750000000, x |-> TRUE]
    @@ <<"sine.in-out", 30>> :> [q |-> 500000000, x |-> TRUE]
    @@ <<"quad.in", 3>> :> [q |-> 997500000, x |-> FALSE]
    @@ <<"quad.in", 33>> :> [q |-> 697500000, x |-> FALSE]
    @@ <<"quad.in-out", 9>> :> [q |-> 954999999, x |-> FALSE]
    @@ <<"cubic.in", 9>> :> [q |-> 996624999, x |-> FALSE]
    @@ <<"cubic.in", 18>> :> [q |-> 972999999, x |-> FALSE]
    @@ <<"cubic.in-out", 3>> :> [q |-> 999500000, x |-> FALSE]
    @@ <<"quart.in", 3>> :> [q |-> 999993750, x |-> FALSE]
    @@ <<"quart.in", 6>> :> [q |-> 999900000, x |-> FALSE]
    @@ <<"quart.in", 9>> :> [q |-> 999493749, x |-> FALSE]
    @@ <<"quart.in", 24>> :> [q |-> 974400000, x |-> FALSE]
    @@ <<"quart.in-out", 3>> :> [q |-> 999950000, x |-> FALSE]
    @@ <<"quint.in", 6>> :> [q |-> 999990000, x |-> FALSE]
    @@ <<"quint.in", 12>> :> [q |-> 999680000, x |-> FALSE]
    @@ <<"quint.in", 18>> :> [q |-> 997569999, x |-> FALSE]
    @@ <<"quint.in", 36>> :> [q |-> 922239999, x |-> FALSE]
    @@ <<"quint.in-out", 18>> :> [q |-> 961119999, x |-> FALSE]

(* 1 - v: with a string operand the string converts to NaN *)
OneMinus(name, t, v) ==
    IF ~IsNumber(v) THEN NaN
    ELSE IF <<name, t.k>> \in DOMAIN OneMinusRounded THEN OneMinusRounded[<<name, t.k>>]
    ELSE IF v.x THEN [q |-> Scale - v.q, x |-> TRUE]
    ELSE [q |-> Scale - v.q - 1, x |-> FALSE]

OpacityNotInverted(name, t, v, rev) == v

(* reverse ? easedT : 1 - easedT *)
Opacity(name, t, v, rev) ==
    IF rev THEN v ELSE OneMinus(name, t, v)

(* The pairs <<k, height>> whose product (k / 60) * height is a multiple   *)
(* of 1 / PosScale that the double multiplication rounds to just below it  *)
ProductRoundedBelow ==
    {<<11, 33>>, <<17, 33>>, <<19, 33>>, <<21, 33>>, <<22, 33>>, <<27,
     33>>, <<29, 33>>, <<34, 33>>, <<38, 33>>, <<39, 33>>, <<42, 33>>,
     <<43, 33>>, <<44, 33>>, <<49, 33>>, <<53, 33>>, <<54, 33>>, <<57,
     33>>, <<58, 33>>, <<59, 33>>, <<1, 99>>, <<2, 99>>, <<4, 99>>, <<8,
     99>>, <<9, 99>>, <<11, 99>>, <<13, 99>>, <<16, 99>>, <<18, 99>>, <<19,
     99>>, <<21, 99>>, <<22, 99>>, <<26, 99>>, <<32, 99>>, <<36, 99>>,
     <<38, 99>>, <<42, 99>>, <<44, 99>>, <<47, 99>>, <<49, 99>>, <<51,
     99>>, <<52, 99>>, <<57, 99>>, <<59, 99>>}

PositionIgnoringHeight(t, h) ==
    IF t = NaN THEN NaN ELSE [q |-> (t.k * PosScale) \div Sixtieths]

(* (i / precision) * height, as q = floor(pos * PosScale); NaN * h is NaN *)
Position(t, h) ==
    IF t = NaN THEN NaN
    ELSE LET n == t.k * h
             exact == (n \div Sixtieths) * PosScale
                      + ((n % Sixtieths) * PosScale) \div Sixtieths
         IN  [q |-> IF <<t.k, h>> \in ProductRoundedBelow THEN exact - 1 ELSE exact]

(* Number.prototype.toFixed(digits) yields the decimal text of n / 10^digits; *)
(* the model keeps n and digits and spells the text out in DecimalText       *)
NaNText == [text |-> "NaN"]

(* Numbers have toFixed; a string does not, and calling it raises *)
HasToFixed(v) == v = NaN \/ IsNumber(v)

(* opacity.toFixed(3): the nearest multiple of 0.001, the larger on a tie *)
ToFixed3(v) ==
    IF v = NaN THEN NaNText
    ELSE [n |-> (v.q + (Scale \div 2000)) \div (Scale \div 1000), digits |-> 3]

(* pos.toFixed(1) *)
ToFixed1(v) ==
    IF v = NaN THEN NaNText
    ELSE [n |-> (v.q + (PosScale \div 20)) \div (PosScale \div 10), digits |-> 1]

LoopIndicesExclusive(p) == 0..(p - 1)

(* for (let i = 0; i <= precision; i++) *)
LoopIndices(p) == 0..p

AppendsTerminalAlways(h) == h <= HeightMax

(* if (height < 100) *)
AppendsTerminal(h) == h < HeightMax

TerminalStopTransparent(rev) ==
    [alpha |-> [n |-> 0, digits |-> 0], pos |-> [n |-> HeightMax, digits |-> 0]]

(* `rgba(0, 0, 0, ${reverse ? 1 : 0}) 100%` *)
TerminalStop(rev) ==
    [alpha |-> [n |-> IF rev THEN 1 ELSE 0, digits |-> 0],
     pos |-> [n |-> HeightMax, digits |-> 0]]

(* The body of the maskImage memo.  A stop is the pair of texts the        *)
(* template interpolates, `rgba(0, 0, 0, ${alpha}) ${pos}%`, and the        *)
(* result the direction and the stops that linear-gradient(...) joins.     *)
(* threw tells that getEasing or toFixed raised.                           *)
MaskImage(dir, h, p, type, pre, rev) ==
    LET n == Cardinality(LoopIndices(p))
        name == CurveName(pre, type)
        T(i) == Divide(i, p)
        eased == [j \in 1..n |-> getEasing(pre, type, T(j - 1))]
        opacity == [j \in 1..n |->
                      IF eased[j] = TypeError THEN TypeError
                      ELSE Opacity(name, T(j - 1), eased[j], rev)]
        computed == [j \in 1..n |->
                       [alpha |-> ToFixed3(opacity[j]),
                        pos |-> ToFixed1(Position(T(j - 1), h))]]
        all == IF AppendsTerminal(h) THEN Append(computed, TerminalStop(rev))
               ELSE computed
    IN  IF \E j \in 1..n : ~HasToFixed(opacity[j])
        THEN [threw |-> TRUE, easedT |-> <<>>, maskImage |-> Undefined]
        ELSE [threw |-> FALSE, easedT |-> eased,
              maskImage |-> [direction |-> dir, stops |-> all]]

Digit == <<"0", "1", "2", "3", "4", "5", "6", "7", "8", "9">>

(* The decimal digits of a natural number *)
RECURSIVE IntText(_)
IntText(n) ==
    IF n < 10 THEN Digit[n + 1] ELSE IntText(n \div 10) \o Digit[(n % 10) + 1]

(* The last d decimal digits of n *)
RECURSIVE Fraction(_, _)
Fraction(n, d) ==
    IF d = 0 THEN "" ELSE Fraction(n \div 10, d - 1) \o Digit[(n % 10) + 1]

(* The text toFixed returned *)
DecimalText(t) ==
    IF t = NaNText THEN "NaN"
    ELSE IF t.digits = 0 THEN IntText(t.n)
    ELSE LET unit == IF t.digits = 1 THEN 10 ELSE 1000
         IN  IntText(t.n \div unit) \o "." \o Fraction(t.n % unit, t.digits)

(* `rgba(0, 0, 0, ${opacity.toFixed(3)}) ${pos.toFixed(1)}%` *)
StopText(stop) ==
    "rgba(0, 0, 0, " \o DecimalText(stop.alpha) \o ") " \o DecimalText(stop.pos) \o "%"

(* stops.join(', ') *)
RECURSIVE Join(_)
Join(texts) ==
    IF Len(texts) = 0 THEN ""
    ELSE IF Len(texts) = 1 THEN texts[1]
    ELSE texts[1] \o ", " \o Join(Tail(texts))

(* `linear-gradient(${direction}, ${stops.join(', ')})` *)
GradientText(g) ==
    "linear-gradient(" \o g.direction \o ", "
    \o Join([j \in 1..Len(g.stops) |-> StopText(g.stops[j])]) \o ")"

(* What the memo body reads from the render it runs in *)
Closure(s) ==
    [direction |-> s.direction, height |-> s.height, precision |-> s.precision,
     easingType |-> s.easingType, preset |-> s.preset, reverse |-> s.reverse]

MemoDepsWithoutReverse(s) ==
    <<s.direction, s.height, s.precision, s.easingType, s.preset>>

(* The memo's dependency array [direction, height, precision, easingType,  *)
(* preset, reverse]                                                        *)
MemoDeps(s) ==
    <<s.direction, s.height, s.precision, s.easingType, s.preset, s.reverse>>

(* The last run of the memo body, and the value the memo holds *)
synthesis ==
    MaskImage(memoized.direction, memoized.height, memoized.precision,
              memoized.easingType, memoized.preset, memoized.reverse)

maskImage == synthesis.maskImage
stops == maskImage.stops
easedT == synthesis.easedT

-----------------------------------------------------------------------------
(* The debounce timer callback: setHistory(prev => ...) with the currentState *)
(* and historyIndex its closure captured                                      *)

SliceEndWholeArray(arr, index) == Len(arr)

SliceEnd(arr, index) == index + 1

SnapshotsDifferAlways(last, state) == TRUE

SnapshotsDiffer(last, state) == JSONstringify(last) # JSONstringify(state)

PushedIndex(next) == Len(next) - 1

TimerCallback(arr, index, state) ==
    LET next == Slice0(arr, SliceEnd(arr, index))
        last == At(next, Len(next) - 1)
        push == SnapshotsDiffer(last, state)
        out  == IF push THEN Append(next, state) ELSE next
    IN  [history |-> out, setIndex |-> push, historyIndex |-> PushedIndex(out)]

-----------------------------------------------------------------------------
(* undo / redo *)

CanUndoAtZero(index, hist) == index >= 0

CanUndo(index, hist) == index > 0

CanRedoAtLast(index, hist) == index <= Len(hist) - 1

CanRedo(index, hist) == index < Len(hist) - 1

RestoreDroppingFuture(hist, idx) ==
    [isUndoing |-> TRUE, historyIndex |-> idx, state |-> At(hist, idx),
     history |-> Slice0(hist, idx + 1)]

(* The body of undo/redo once its guard holds, for the target index idx *)
Restore(hist, idx) ==
    [isUndoing |-> TRUE, historyIndex |-> idx, state |-> At(hist, idx),
     history |-> hist]

ApplyStateWithoutBlur(state) ==
    IF state = Undefined
    THEN /\ threw' = TRUE
         /\ UNCHANGED live
    ELSE /\ direction' = state.direction
         /\ height' = state.height
         /\ precision' = state.precision
         /\ easingType' = state.easingType
         /\ preset' = state.preset
         /\ reverse' = state.reverse
         /\ UNCHANGED <<blur, threw>>

(* applyState: reading state.direction of undefined raises before any setter runs *)
ApplyState(state) ==
    IF state = Undefined
    THEN /\ threw' = TRUE
         /\ UNCHANGED live
    ELSE /\ direction' = state.direction
         /\ height' = state.height
         /\ precision' = state.precision
         /\ blur' = state.blur
         /\ easingType' = state.easingType
         /\ preset' = state.preset
         /\ reverse' = state.reverse
         /\ UNCHANGED threw

-----------------------------------------------------------------------------
(* Timers *)

ClearTimeoutForgotten(ts, id) == ts

ClearTimeout(ts, id) == {t \in ts : t.id # id}

FreshId(ts) ==
    CHOOSE i \in 1..(Cardinality(ts) + 1) :
        /\ \A t \in ts : t.id # i
        /\ \A j \in 1..(i - 1) : \E t \in ts : t.id = j

SetTimeout(ts, state, index, delay) ==
    ts \cup {[id |-> FreshId(ts), state |-> state, index |-> index, left |-> delay]}

(* Whether the render that follows a handler changed a dependency of the effect *)
DepsChanged ==
    Deps(currentState, history, historyIndex) # Deps(currentState', history', historyIndex')

-----------------------------------------------------------------------------
(* The state after the first render: every useState/useRef at its initial  *)
(* value, the effects of the mount not yet run                             *)

Init ==
    /\ direction = DEFAULT_STATE.direction
    /\ height = DEFAULT_STATE.height
    /\ precision = DEFAULT_STATE.precision
    /\ blur = DEFAULT_STATE.blur
    /\ easingType = DEFAULT_STATE.easingType
    /\ preset = DEFAULT_STATE.preset
    /\ reverse = DEFAULT_STATE.reverse
    /\ history = <<>>
    /\ historyIndex = -1
    /\ isUndoing = FALSE
    /\ timers = {}
    /\ cleanupTimer = NoTimer
    /\ effectDue = TRUE
    /\ threw = FALSE
    /\ edits = 0
    /\ burst = <<>>
    /\ quiet = 0
    /\ lastOp = "render"
    /\ prev = [history |-> <<>>, historyIndex |-> -1, state |-> DEFAULT_STATE,
               burst |-> <<>>]
    /\ memoized = Closure(DEFAULT_STATE)

-----------------------------------------------------------------------------
(* The history effect, run after a render that changed one of its           *)
(* dependencies: the previous run's cleanup, then one of its three branches *)

ProgrammaticChangeIgnored(flag) == FALSE

(* if (isUndoing.current): the change being observed came from undo/redo *)
ProgrammaticChange(flag) == flag

(* What lastOp and prev record when handler op runs *)
Ran(op) ==
    /\ lastOp' = op
    /\ quiet' = 0
    /\ prev' = [history |-> history, historyIndex |-> historyIndex,
                state |-> currentState, burst |-> burst]

EffectSeedWithoutIndex ==
    /\ effectDue
    /\ Len(history) = 0
    /\ history' = <<currentState>>
    /\ timers' = ClearTimeout(timers, cleanupTimer)
    /\ cleanupTimer' = NoTimer
    /\ UNCHANGED <<live, historyIndex, isUndoing, threw, edits, burst, quiet, lastOp, prev>>
    /\ effectDue' = DepsChanged
    /\ UNCHANGED memoized

EffectSeed ==
    /\ effectDue
    /\ Len(history) = 0
    /\ history' = <<currentState>>
    /\ historyIndex' = 0
    /\ timers' = ClearTimeout(timers, cleanupTimer)
    /\ cleanupTimer' = NoTimer
    /\ UNCHANGED <<live, isUndoing, threw, edits, burst, quiet, lastOp, prev>>
    /\ effectDue' = DepsChanged
    /\ UNCHANGED memoized

EffectProgrammatic ==
    /\ effectDue
    /\ Len(history) # 0
    /\ ProgrammaticChange(isUndoing)
    /\ isUndoing' = FALSE
    /\ timers' = ClearTimeout(timers, cleanupTimer)
    /\ cleanupTimer' = NoTimer
    /\ effectDue' = FALSE
    /\ UNCHANGED <<live, history, historyIndex, threw, edits, burst, quiet, lastOp, prev>>
    /\ UNCHANGED memoized

EffectSchedule ==
    /\ effectDue
    /\ Len(history) # 0
    /\ ~ProgrammaticChange(isUndoing)
    /\ LET cleared == ClearTimeout(timers, cleanupTimer)
       IN  /\ timers' = SetTimeout(cleared, currentState, historyIndex, DebounceMs)
           /\ cleanupTimer' = FreshId(cleared)
    /\ effectDue' = FALSE
    /\ UNCHANGED <<live, history, historyIndex, isUndoing, threw, edits, burst, quiet,
                   lastOp, prev>>
    /\ UNCHANGED memoized

-----------------------------------------------------------------------------
(* User changes: one setter per control, and resetBlur.  A setter called   *)
(* with the value the state already has causes no render.                  *)

(* useMemo at the render that follows a handler: the body runs again, with *)
(* the parameters of that render, only when a dependency differs from the  *)
(* one the kept value was computed for                                     *)
UseMemo ==
    memoized' = IF MemoDeps(currentState') # MemoDeps(memoized)
                THEN Closure(currentState')
                ELSE memoized

UserChange(op) ==
    /\ edits' = edits + 1
    /\ burst' = Append(burst, currentState')
    /\ Ran(op)
    /\ UNCHANGED <<history, historyIndex, isUndoing, timers, cleanupTimer, threw>>
    /\ effectDue' = DepsChanged
    /\ UseMemo

SetDirection(v) ==
    /\ ~effectDue /\ edits < MaxEdits
    /\ v # direction
    /\ direction' = v
    /\ UNCHANGED <<height, precision, blur, easingType, preset, reverse>>
    /\ UserChange("setDirection")

SetHeight(v) ==
    /\ ~effectDue /\ edits < MaxEdits
    /\ v # height
    /\ height' = v
    /\ UNCHANGED <<direction, precision, blur, easingType, preset, reverse>>
    /\ UserChange("setHeight")

SetPrecision(v) ==
    /\ ~effectDue /\ edits < MaxEdits
    /\ v # precision
    /\ precision' = v
    /\ UNCHANGED <<direction, height, blur, easingType, preset, reverse>>
    /\ UserChange("setPrecision")

SetBlur(v) ==
    /\ ~effectDue /\ edits < MaxEdits
    /\ v # blur
    /\ blur' = v
    /\ UNCHANGED <<direction, height, precision, easingType, preset, reverse>>
    /\ UserChange("setBlur")

SetEasingType(v) ==
    /\ ~effectDue /\ edits < MaxEdits
    /\ v # easingType
    /\ easingType' = v
    /\ UNCHANGED <<direction, height, precision, blur, preset, reverse>>
    /\ UserChange("setEasingType")

SetPreset(v) ==
    /\ ~effectDue /\ edits < MaxEdits
    /\ v # preset
    /\ preset' = v
    /\ UNCHANGED <<direction, height, precision, blur, easingType, reverse>>
    /\ UserChange("setPreset")

SetReverse(v) ==
    /\ ~effectDue /\ edits < MaxEdits
    /\ v # reverse
    /\ reverse' = v
    /\ UNCHANGED <<direction, height, precision, blur, easingType, preset>>
    /\ UserChange("setReverse")

ResetBlur ==
    /\ ~effectDue /\ edits < MaxEdits
    /\ currentState # DEFAULT_STATE
    /\ ApplyState(DEFAULT_STATE)
    /\ edits' = edits + 1
    /\ burst' = Append(burst, currentState')
    /\ Ran("resetBlur")
    /\ UNCHANGED <<history, historyIndex, isUndoing, timers, cleanupTimer>>
    /\ effectDue' = DepsChanged
    /\ UseMemo

-----------------------------------------------------------------------------
(* undo and redo: the click handlers, callable in every state *)

RestoreStep(idx, op) ==
    LET r == Restore(history, idx)
    IN  /\ isUndoing' = r.isUndoing
        /\ historyIndex' = r.historyIndex
        /\ history' = r.history
        /\ ApplyState(r.state)
        /\ burst' = <<>>
        /\ Ran(op)
        /\ UNCHANGED <<timers, cleanupTimer, edits>>
        /\ effectDue' = DepsChanged
        /\ UseMemo

NoOpStep(op) ==
    /\ Ran(op)
    /\ UNCHANGED <<live, history, historyIndex, isUndoing, timers, cleanupTimer,
                   effectDue, threw, edits, burst>>
    /\ UNCHANGED memoized

Undo ==
    /\ ~effectDue
    /\ IF CanUndo(historyIndex, history)
       THEN RestoreStep(historyIndex - 1, "undo")
       ELSE NoOpStep("undo")

Redo ==
    /\ ~effectDue
    /\ IF CanRedo(historyIndex, history)
       THEN RestoreStep(historyIndex + 1, "redo")
       ELSE NoOpStep("redo")

-----------------------------------------------------------------------------
(* Time: a pending timer fires once its delay has elapsed *)

Tick ==
    /\ ~effectDue
    /\ \A t \in timers : t.left > 0
    /\ timers # {} \/ quiet < MaxQuiet
    /\ timers' = {[t EXCEPT !.left = Max(0, t.left - TickMs)] : t \in timers}
    /\ quiet' = Min(MaxQuiet, quiet + TickMs)
    /\ UNCHANGED <<live, history, historyIndex, isUndoing, cleanupTimer, effectDue,
                   threw, edits, burst, lastOp, prev>>
    /\ UNCHANGED memoized

TimerFire(t) ==
    /\ ~effectDue
    /\ t \in timers
    /\ t.left = 0
    /\ timers' = timers \ {t}
    /\ LET r == TimerCallback(history, t.index, t.state)
       IN  /\ history' = r.history
           /\ historyIndex' = IF r.setIndex THEN r.historyIndex ELSE historyIndex
    /\ burst' = <<>>
    /\ Ran("fire")
    /\ UNCHANGED <<live, isUndoing, cleanupTimer, threw, edits>>
    /\ effectDue' = DepsChanged
    /\ UseMemo

-----------------------------------------------------------------------------

Next ==
    \/ EffectSeed
    \/ EffectProgrammatic
    \/ EffectSchedule
    \/ \E v \in DirectionInputs : SetDirection(v)
    \/ \E v \in HeightInputs : SetHeight(v)
    \/ \E v \in PrecisionInputs : SetPrecision(v)
    \/ \E v \in BlurInputs : SetBlur(v)
    \/ \E v \in EasingTypeInputs : SetEasingType(v)
    \/ \E v \in PresetInputs : SetPreset(v)
    \/ \E v \in BOOLEAN : SetReverse(v)
    \/ ResetBlur
    \/ Undo
    \/ Redo
    \/ Tick
    \/ \E t \in timers : TimerFire(t)

Spec == Init /\ [][Next]_vars

TypeOK ==
    /\ currentState \in [direction : DIRECTIONS, height : HeightMin..HeightMax,
                         precision : PrecisionMin..PrecisionMax, blur : BlurMin..BlurMax,
                         easingType : EASING_TYPES, preset : PRESETS, reverse : BOOLEAN]
    /\ historyIndex \in -1..Len(history)
    /\ isUndoing \in BOOLEAN /\ effectDue \in BOOLEAN /\ threw \in BOOLEAN
    /\ edits \in 0..MaxEdits /\ Len(burst) <= edits /\ quiet \in 0..MaxQuiet

-----------------------------------------------------------------------------
(* Steps by kind *)

FireStep == \E t \in timers : TimerFire(t)

UserChangeStep ==
    \/ \E v \in DirectionInputs : SetDirection(v)
    \/ \E v \in HeightInputs : SetHeight(v)
    \/ \E v \in PrecisionInputs : SetPrecision(v)
    \/ \E v \in BlurInputs : SetBlur(v)
    \/ \E v \in EasingTypeInputs : SetEasingType(v)
    \/ \E v \in PresetInputs : SetPreset(v)
    \/ \E v \in BOOLEAN : SetReverse(v)
    \/ ResetBlur

UserChangeOps ==
    {"setDirection", "setHeight", "setPrecision", "setBlur", "setEasingType",
     "setPreset", "setReverse", "resetBlur"}

Range(seq) == {seq[i] : i \in 1..Len(seq)}

-----------------------------------------------------------------------------
(* C1: whenever the history sequence is non-empty, 0 <= index < length,   *)
(* after any interleaving of changes, debounce firings, undo, redo, reset *)
C1_IndexInRange ==
    Len(history) > 0 => (0 <= historyIndex /\ historyIndex < Len(history))

C1_Witness ==
    /\ lastOp = "undo"
    /\ Len(history) = 3
    /\ prev.historyIndex = 1
    /\ historyIndex = 0

(* C2: a debounce firing whose snapshot differs from sequence[index] leaves *)
(* sequence[0..index] followed by that snapshot, with index its position    *)
C2_CommitTruncatesThenAppends ==
    [][\A t \in timers :
         (TimerFire(t) /\ t.state # At(history, historyIndex))
         => /\ history' = Append(SubSeq(history, 1, historyIndex + 1), t.state)
            /\ historyIndex' = Len(history') - 1]_vars

(* commit B, commit C, undo, undo, then commit D: [A, D] with index 1 *)
C2_Witness ==
    /\ lastOp = "fire"
    /\ Len(prev.history) = 3
    /\ prev.historyIndex = 0
    /\ prev.state \notin Range(prev.history)
    /\ history = <<prev.history[1], prev.state>>
    /\ historyIndex = 1
    /\ ~CanRedo(historyIndex, history)

(* C3: a debounce firing whose snapshot is structurally identical to        *)
(* sequence[index] leaves the whole sequence, entries beyond index          *)
(* included, and index unchanged                                            *)
C3_IdenticalFiringIsNoOp ==
    [][\A t \in timers :
         (TimerFire(t) /\ t.state = At(history, historyIndex))
         => (history' = history /\ historyIndex' = historyIndex)]_vars

(* C4: no two adjacent entries of the history sequence are structurally equal *)
C4_NoAdjacentDuplicates ==
    \A i \in 1..(Len(history) - 1) :
        JSONstringify(history[i]) # JSONstringify(history[i + 1])

(* the user changed a value and changed it back, with a commit after each *)
C4_Witness ==
    /\ lastOp = "fire"
    /\ Len(history) = 3
    /\ history[1] = history[3]
    /\ Len(prev.history) = 2

(* C5: undo and redo leave the history sequence entry for entry as it was *)
C5_UndoRedoKeepSequence ==
    [][(Undo \/ Redo) => history' = history]_vars

C5_Witness ==
    /\ lastOp = "redo"
    /\ Len(history) = 3
    /\ prev.historyIndex = 1
    /\ historyIndex = 2
    /\ history = prev.history
    /\ prev.state # currentState

(* C6: changes A, B, C made within the debounce window of one another:     *)
(* each change cancels the commit pending for the one before it and opens  *)
(* a new window of DebounceMs; the firing that ends the burst appends      *)
(* exactly one entry, the last change C, and neither A nor B enters the    *)
(* sequence                                                                *)
C6_BurstCommitsOnlyLast ==
    /\ [][UserChangeStep => (history' = history /\ historyIndex' = historyIndex)]_vars
    /\ [][(effectDue /\ lastOp \in UserChangeOps)
          => timers' = {[id |-> cleanupTimer', state |-> burst[Len(burst)],
                         index |-> historyIndex, left |-> DebounceMs]}]_vars
    /\ [][(FireStep /\ burst # <<>>
             /\ burst[Len(burst)] # At(history, historyIndex))
          => /\ history' = Append(SubSeq(history, 1, historyIndex + 1), burst[Len(burst)])
             /\ Len(history') = historyIndex + 2
             /\ Range(history') \subseteq Range(history) \cup {burst[Len(burst)]}]_vars

C6_Witness ==
    /\ lastOp = "fire"
    /\ Len(prev.burst) = 3
    /\ Cardinality(Range(prev.burst) \cup Range(prev.history)) = 3 + Len(prev.history)
    /\ history = Append(prev.history, prev.burst[3])
    /\ prev.burst[1] \notin Range(history)
    /\ prev.burst[2] \notin Range(history)

(* C7: undo at index <= 0 and redo at index >= length - 1 change nothing   *)
(* and raise no error; undo changes the state exactly when index > 0 and   *)
(* redo exactly when index < length - 1                                    *)
C7_BoundaryNoOps ==
    /\ [][(Undo /\ historyIndex <= 0)
          => UNCHANGED <<historyIndex, history, live, isUndoing, threw>>]_vars
    /\ [][(Redo /\ historyIndex >= Len(history) - 1)
          => UNCHANGED <<historyIndex, history, live, isUndoing, threw>>]_vars
    /\ [][(Undo /\ historyIndex > 0) => historyIndex' # historyIndex]_vars
    /\ [][(Redo /\ historyIndex < Len(history) - 1) => historyIndex' # historyIndex]_vars
    /\ [](~threw)

C7_Witness ==
    /\ lastOp = "redo"
    /\ Len(history) = 2
    /\ prev.historyIndex = 1
    /\ historyIndex = 1
    /\ prev.state = currentState
    /\ ~isUndoing
    /\ ~threw

(* C8: when index > 0 undo decrements index by one, when index < length - 1 *)
(* redo increments it by one, and either sets all seven live parameters to  *)
(* sequence[index] for the new index                                        *)
C8_UndoRedoRestoreEntry ==
    /\ [][(Undo /\ historyIndex > 0)
          => /\ historyIndex' = historyIndex - 1
             /\ currentState' = At(history, historyIndex')]_vars
    /\ [][(Redo /\ historyIndex < Len(history) - 1)
          => /\ historyIndex' = historyIndex + 1
             /\ currentState' = At(history, historyIndex')]_vars

(* an undo that restores blurRadius, from a pending edit that changed another field *)
C8_Witness ==
    /\ lastOp = "undo"
    /\ historyIndex = prev.historyIndex - 1
    /\ currentState = history[historyIndex + 1]
    /\ prev.state.blur # blur
    /\ prev.state.height # height

C10_EmptyThenTracking ==
    /\ history = <<>> /\ historyIndex = -1
    /\ [][history = <<>> => (history' = <<DEFAULT_STATE>> /\ historyIndex' = 0)]_vars
    /\ [][history # <<>> => history' # <<>>]_vars

C10_Witness ==
    /\ lastOp = "render"
    /\ history = <<DEFAULT_STATE>>
    /\ historyIndex = 0
    /\ timers # {}

-----------------------------------------------------------------------------
(* The editor with at most MaxLiveEdits user changes and the scheduling    *)
(* the runtime guarantees: an owed effect runs, time passes, and a timer   *)
(* whose delay has elapsed fires                                           *)
LiveNext ==
    \/ EffectSeed
    \/ EffectProgrammatic
    \/ EffectSchedule
    \/ edits < MaxLiveEdits /\ \E v \in DirectionInputs : SetDirection(v)
    \/ edits < MaxLiveEdits /\ \E v \in HeightInputs : SetHeight(v)
    \/ edits < MaxLiveEdits /\ \E v \in PrecisionInputs : SetPrecision(v)
    \/ edits < MaxLiveEdits /\ \E v \in BlurInputs : SetBlur(v)
    \/ edits < MaxLiveEdits /\ \E v \in EasingTypeInputs : SetEasingType(v)
    \/ edits < MaxLiveEdits /\ \E v \in PresetInputs : SetPreset(v)
    \/ edits < MaxLiveEdits /\ \E v \in BOOLEAN : SetReverse(v)
    \/ edits < MaxLiveEdits /\ ResetBlur
    \/ Undo
    \/ Redo
    \/ Tick
    \/ FireStep

LiveSpec ==
    /\ Init
    /\ [][LiveNext]_vars
    /\ WF_vars(EffectSeed \/ EffectProgrammatic \/ EffectSchedule)
    /\ WF_vars(Tick)
    /\ WF_vars(FireStep)

(* C11: while Tracking, a user change that is followed by a quiet period   *)
(* of the debounce window is eventually committed: the commit is due no    *)
(* later than DebounceMs after the last change, and unless an undo or redo *)
(* cancels it the controller reaches a state where sequence[index] is the  *)
(* live snapshot and index is the last position                            *)
C11_ChangeEventuallyCommitted ==
    /\ []((~effectDue /\ burst # <<>>)
          => \E t \in timers : /\ t.state = currentState
                               /\ t.left <= Max(0, DebounceMs - quiet))
    /\ (~effectDue /\ burst # <<>>)
         ~> \/ /\ lastOp = "fire"
               /\ At(history, historyIndex) = currentState
               /\ historyIndex = Len(history) - 1
            \/ /\ lastOp \in {"undo", "redo"}
               /\ burst = <<>>

C11_Witness ==
    /\ lastOp = "fire"
    /\ prev.burst # <<>>
    /\ prev.state = currentState
    /\ At(prev.history, prev.historyIndex) # currentState
    /\ At(history, historyIndex) = currentState
    /\ historyIndex = Len(history) - 1
    /\ Len(history) = 3

-----------------------------------------------------------------------------
(* The stop synthesis on its own: the memo body applied once to parameters *)
(* drawn from the controls' ranges and from what a caller outside the      *)
(* controls could pass (precision 0, names outside the catalog)            *)

SynthHeights == {HeightMin, 33, DEFAULT_STATE.height, 99, HeightMax}
SynthPrecisions == {0, 2, 3, 4, 5, 6, 10, 12, 15, 20}
SynthPresets == PRESETS \cup {"bounce"}
SynthEasingTypes == EASING_TYPES \cup {"bogus", "toString"}

SynthInit ==
    /\ direction \in DIRECTIONS
    /\ height \in SynthHeights
    /\ precision \in SynthPrecisions
    /\ blur \in BlurInputs
    /\ easingType \in SynthEasingTypes
    /\ preset \in SynthPresets
    /\ reverse \in BOOLEAN
    /\ history = <<>>
    /\ historyIndex = -1
    /\ isUndoing = FALSE
    /\ timers = {}
    /\ cleanupTimer = NoTimer
    /\ effectDue = TRUE
    /\ threw = FALSE
    /\ edits = 0
    /\ burst = <<>>
    /\ quiet = 0
    /\ lastOp = "call"
    /\ prev = [history |-> <<>>, historyIndex |-> -1, state |-> currentState,
               burst |-> <<>>]
    /\ memoized = Undefined

Synthesize ==
    /\ lastOp = "call"
    /\ memoized' = Closure(currentState)
    /\ threw' = MaskImage(direction, height, precision, easingType, preset, reverse).threw
    /\ lastOp' = "maskImage"
    /\ UNCHANGED <<live, history, historyIndex, isUndoing, timers, cleanupTimer,
                   effectDue, edits, burst, quiet, prev>>

SynthSpec == SynthInit /\ [][Synthesize]_vars

-----------------------------------------------------------------------------
(* States of the stop synthesis *)

(* The memo body has run and returned a gradient *)
Synthesized == lastOp = "maskImage" /\ ~threw

(* The parameters are ones the controls can produce *)
InControlRanges ==
    /\ height \in HeightMin..HeightMax
    /\ precision \in PrecisionMin..PrecisionMax
    /\ preset \in PRESETS
    /\ easingType \in EASING_TYPES

(* C13: for precision in [2,20] and height in [0,100] the gradient has     *)
(* exactly precision + 1 stops when height = 100 and exactly precision + 2 *)
(* stops when height < 100                                                 *)
C13_StopCount ==
    (Synthesized /\ InControlRanges)
        => Len(stops) = IF height = HeightMax THEN precision + 1 ELSE precision + 2

(* a 20-step gradient over 99% of the axis has 22 stops *)
C13_Witness ==
    /\ Synthesized /\ InControlRanges
    /\ precision = PrecisionMax
    /\ height = 99
    /\ Len(stops) = 22

(* C14: a terminal stop follows the computed stops if and only if          *)
(* height < 100; it is then the last stop, at 100%, with alpha 1 when      *)
(* reverse is true and 0 when it is false                                  *)
C14_TerminalStopIffBelowFullHeight ==
    Synthesized =>
        LET computed == Len(easedT)
            last == stops[Len(stops)]
        IN  /\ Len(stops) = IF height < HeightMax THEN computed + 1 ELSE computed
            /\ height < HeightMax =>
                   /\ DecimalText(last.pos) \o "%" = "100%"
                   /\ DecimalText(last.alpha) = IF reverse THEN "1" ELSE "0"

(* a reversed gradient over half of the axis ends with the stop            *)
(* rgba(0, 0, 0, 1) 100%                                                   *)
C14_Witness ==
    /\ Synthesized /\ InControlRanges
    /\ height = DEFAULT_STATE.height /\ reverse
    /\ Len(stops) = Len(easedT) + 1
    /\ StopText(stops[Len(stops)]) = "rgba(0, 0, 0, 1) 100%"

(* C15, as stated: with height = 0 the first stop is at 0%, a terminal     *)
(* stop at 100% with alpha reverse ? 1 : 0 follows, and the output is a    *)
(* two-stop gradient                                                       *)
C15_ZeroHeightTwoStops ==
    (Synthesized /\ InControlRanges /\ height = HeightMin)
        => /\ DecimalText(stops[1].pos) = "0.0"
           /\ stops[Len(stops)] = TerminalStop(reverse)
           /\ Len(stops) = 2

(* C15, amended: with height = 0 every one of the precision + 1 computed   *)
(* stops is at 0.0%, and the terminal stop at 100% with alpha              *)
(* reverse ? 1 : 0 follows them, precision + 2 stops in all                *)
C15_ZeroHeightStopsCollapse ==
    (Synthesized /\ InControlRanges /\ height = HeightMin)
        => /\ Len(stops) = precision + 2
           /\ \A j \in 1..(precision + 1) : DecimalText(stops[j].pos) = "0.0"
           /\ StopText(stops[precision + 2])
                = "rgba(0, 0, 0, " \o (IF reverse THEN "1" ELSE "0") \o ") 100%"

(* the default curve with height 0: seven stops at 0.0%, from alpha 1.000  *)
(* down to 0.000, then the terminal stop                                   *)
C15_Witness ==
    /\ Synthesized /\ height = HeightMin
    /\ precision = DEFAULT_STATE.precision /\ preset = DEFAULT_STATE.preset
    /\ easingType = DEFAULT_STATE.easingType /\ ~reverse
    /\ Len(stops) = 8
    /\ StopText(stops[1]) = "rgba(0, 0, 0, 1.000) 0.0%"
    /\ StopText(stops[7]) = "rgba(0, 0, 0, 0.000) 0.0%"
    /\ StopText(stops[8]) = "rgba(0, 0, 0, 0) 100%"

(* C16: for every non-linear family and every variant in, out, in-out,     *)
(* getEasing(family, variant, 0) is exactly 0 and getEasing(family,        *)
(* variant, 1) is exactly 1; the loop calls getEasing with t = 0 first and *)
(* with t = 1 last                                                         *)
C16_EndpointsExact ==
    (Synthesized /\ InControlRanges /\ preset # "linear")
        => /\ easedT[1] = Zero
           /\ easedT[Len(easedT)] = One

(* C17: direction 'to top', height 50, precision 6, family expo, variant   *)
(* in, reverse false give the first stop rgba(0,0,0,1.000) at 0.0%, the    *)
(* last computed stop (i = 6) rgba(0,0,0,0.000) at 50.0%, and after it the *)
(* terminal stop rgba(0,0,0,0) at 100%                                     *)
C17_DefaultGradient ==
    (Synthesized /\ Closure(currentState) = Closure(DEFAULT_STATE))
        => /\ StopText(stops[1]) = "rgba(0, 0, 0, 1.000) 0.0%"
           /\ StopText(stops[7]) = "rgba(0, 0, 0, 0.000) 50.0%"
           /\ StopText(stops[8]) = "rgba(0, 0, 0, 0) 100%"
           /\ Len(stops) = 8

(* the whole text the default parameters produce *)
C17_Witness ==
    /\ Synthesized /\ Closure(currentState) = Closure(DEFAULT_STATE)
    /\ GradientText(maskImage)
         = "linear-gradient(to top, rgba(0, 0, 0, 1.000) 0.0%, "
           \o "rgba(0, 0, 0, 0.997) 8.3%, rgba(0, 0, 0, 0.990) 16.7%, "
           \o "rgba(0, 0, 0, 0.969) 25.0%, rgba(0, 0, 0, 0.901) 33.3%, "
           \o "rgba(0, 0, 0, 0.685) 41.7%, rgba(0, 0, 0, 0.000) 50.0%, "
           \o "rgba(0, 0, 0, 0) 100%)"

(* C18: the gradient is a function of direction, height, precision,        *)
(* easing family, easing variant and reverse alone: in every state the     *)
(* editor reaches, whatever the blur radius, the history and the earlier   *)
(* runs of the memo, the value the memo holds is the one a fresh synthesis *)
(* from the current six parameters gives                                   *)
C18_OutputDependsOnSixParameters ==
    maskImage
      = MaskImage(direction, height, precision, easingType, preset, reverse).maskImage

(* after edits and an undo the blur radius alone is changed: the six       *)
(* parameters are the default ones again and so is the gradient            *)
C18_Witness ==
    /\ lastOp = "setBlur"
    /\ blur # DEFAULT_STATE.blur
    /\ Len(history) > 1
    /\ prev.state.blur = DEFAULT_STATE.blur
    /\ Closure(currentState) = Closure(DEFAULT_STATE)
    /\ maskImage = MaskImage(DEFAULT_STATE.direction, DEFAULT_STATE.height,
                             DEFAULT_STATE.precision, DEFAULT_STATE.easingType,
                             DEFAULT_STATE.preset, DEFAULT_STATE.reverse).maskImage

(* C19: a synthesis with precision = 0 is rejected: it raises and yields    *)
(* no stops, rather than a stop whose position or alpha is NaN or Infinity *)
C19_ZeroPrecisionRejected ==
    (lastOp = "maskImage" /\ precision = 0 /\ preset \in PRESETS
       /\ easingType \in EASING_TYPES)
        => threw

(* C20: easing resolution raises, and returns no value, when the family is *)
(* not in the catalog or when the family is not linear and the variant is  *)
(* not one of in, out, in-out; for every catalog pair it returns a number  *)
C20_ResolutionFailsOutsideCatalog ==
    (lastOp = "maskImage" /\ precision # 0)
        => LET result == getEasing(preset, easingType, Divide(0, precision))
               outside == \/ preset \notin PRESETS
                          \/ preset # "linear" /\ easingType \notin EASING_TYPES
           IN  IF outside THEN result = TypeError ELSE IsNumber(result)

-----------------------------------------------------------------------------
(* A snapshot within the ranges of the controls and the easing catalog *)
InRanges(s) ==
    /\ s.direction \in DIRECTIONS
    /\ s.height \in HeightMin..HeightMax
    /\ s.precision \in PrecisionMin..PrecisionMax
    /\ s.blur \in BlurMin..BlurMax
    /\ s.preset \in PRESETS
    /\ s.easingType \in EASING_TYPES

(* C21: in every reachable state of the editor the live parameters and     *)
(* every snapshot of the history lie in the ranges of the controls and in  *)
(* the catalogs, and so do the parameters the stop synthesis ran with:     *)
(* never precision 0, never a family or variant outside the catalog        *)
C21_ParametersStayInRanges ==
    /\ InRanges(currentState)
    /\ \A i \in 1..Len(history) : InRanges(history[i])
    /\ memoized.precision \in PrecisionMin..PrecisionMax
    /\ memoized.height \in HeightMin..HeightMax
    /\ memoized.preset \in PRESETS
    /\ memoized.easingType \in EASING_TYPES

(* the sliders were dragged past their ends: height 100 and precision 2    *)
(* are live, committed, and were synthesized                               *)
C21_Witness ==
    /\ lastOp = "fire"
    /\ height = HeightMax /\ precision = PrecisionMin
    /\ At(history, historyIndex) = currentState
    /\ Len(history) = 3
    /\ memoized = Closure(currentState)

(* C22: at most one commit timer is pending at any moment, and it is the   *)
(* one scheduled last; scheduling a commit leaves exactly the new timer,   *)
(* so the timer that fires is never one that a later change superseded     *)
C22_AtMostOneTimerPending ==
    /\ [](Cardinality(timers) <= 1 /\ \A t \in timers : t.id = cleanupTimer)
    /\ [][(effectDue /\ Len(history) # 0 /\ ~isUndoing)
          => (Cardinality(timers') = 1 /\ timers' \cap timers = {})]_vars
    /\ [][FireStep => (timers = {[id |-> cleanupTimer, state |-> currentState,
                                  index |-> historyIndex, left |-> 0]}
                       /\ timers' = {})]_vars

(* a second change arrived while the commit of the first was pending: the  *)
(* only timer left is the one of the second change, with its full delay    *)
C22_Witness ==
    /\ ~effectDue
    /\ Len(burst) = 2
    /\ burst[1] # burst[2]
    /\ quiet = 0
    /\ timers = {[id |-> cleanupTimer, state |-> burst[2],
                  index |-> historyIndex, left |-> DebounceMs]}

-----------------------------------------------------------------------------
(* The memo body run on the current parameters with reverse set to rev *)
MaskImageWithReverse(rev) ==
    MaskImage(direction, height, precision, easingType, preset, rev)

(* The alpha a stop prints, in thousandths *)
AlphaThousandths(stop) ==
    IF stop.alpha.digits = 0 THEN 1000 * stop.alpha.n ELSE stop.alpha.n

(* A value halfway between two multiples of 0.001, or above it by less     *)
(* than 1 / Scale: toFixed(3) rounds it up                                 *)
AtHalfThousandth(v) == v.q % (Scale \div 1000) = Scale \div 2000

(* Exactly halfway: 1 - v is halfway too, and is rounded up as well *)
RoundingTie(v) == v.x /\ AtHalfThousandth(v)

C24_PositionsScaleWithHeight ==
    (Synthesized /\ InControlRanges)
        => LET all == stops
               tenths(j) == all[j].pos.n
           IN  /\ \A j \in 1..(precision + 1) :
                      /\ all[j].pos = ToFixed1(Position(Divide(j - 1, precision), height))
                      /\ all[j].pos.digits = 1
                      /\ 2 * (tenths(j) * precision - 10 * (j - 1) * height) <= precision
                      /\ 2 * (10 * (j - 1) * height - tenths(j) * precision) <= precision
                      /\ tenths(j) <= 10 * height
                      /\ tenths(j) <= 10 * HeightMax
                      /\ j > 1 => tenths(j - 1) <= tenths(j)
               /\ DecimalText(all[1].pos) = "0.0"
               /\ DecimalText(all[precision + 1].pos) = IntText(height) \o ".0"

(* precision 6 and height 33: the seven computed stops from 0.0% to 33.0%  *)
(* in steps of 5.5, then the terminal stop at 100%                         *)
C24_Witness ==
    /\ Synthesized
    /\ precision = 6 /\ height = 33
    /\ [j \in 1..7 |-> DecimalText(stops[j].pos)]
         = <<"0.0", "5.5", "11.0", "16.5", "22.0", "27.5", "33.0">>
    /\ DecimalText(stops[8].pos) = "100"

-----------------------------------------------------------------------------
(* The fields of a BlurState snapshot *)
SnapshotFields ==
    {"direction", "height", "precision", "blur", "easingType", "preset", "reverse"}

(* C25: the comparison at a commit is over all seven fields of the         *)
(* snapshot: a firing appends the live snapshot after sequence[index]      *)
(* exactly when some field differs from sequence[index], and appends       *)
(* nothing only when all seven agree; so a change of a single field, of    *)
(* blurRadius alone too, made on a committed state and left in place until *)
(* the timer fires, becomes a new entry                                    *)
C25_CommitComparesSevenFields ==
    /\ [][FireStep
          => LET committed == At(history, historyIndex)
                 differing == {f \in SnapshotFields : currentState[f] # committed[f]}
             IN  /\ DOMAIN currentState = SnapshotFields
                 /\ DOMAIN committed = SnapshotFields
                 /\ differing # {}
                      => /\ history' = Append(SubSeq(history, 1, historyIndex + 1),
                                              currentState)
                         /\ historyIndex' = historyIndex + 1
                 /\ differing = {}
                      => /\ history' = SubSeq(history, 1, historyIndex + 1)
                         /\ historyIndex' = historyIndex]_vars
    /\ [][(FireStep /\ Len(burst) = 1 /\ lastOp \in UserChangeOps \ {"resetBlur"}
             /\ prev.state = At(history, historyIndex))
          => /\ Cardinality({f \in SnapshotFields : currentState[f] # prev.state[f]}) = 1
             /\ history' = Append(SubSeq(history, 1, historyIndex + 1), currentState)
             /\ history'[historyIndex' + 1] = currentState]_vars

(* the blur radius alone was changed on a committed state, and the firing  *)
(* appended the snapshot                                                   *)
C25_Witness ==
    /\ lastOp = "fire"
    /\ Len(prev.burst) = 1
    /\ Len(prev.history) = 2
    /\ {f \in SnapshotFields : currentState[f] # At(prev.history, prev.historyIndex)[f]}
         = {"blur"}
    /\ history = Append(prev.history, currentState)
    /\ historyIndex = 2

(* C26: whenever height < 100, the last computed stop (i = precision) and  *)
(* the terminal stop at 100% carry the same alpha value, 0 when reverse is *)
(* false and 1 when reverse is true, the terminal stop lies at or after    *)
(* the last computed one, and so the mask does not change between height%  *)
(* and 100%                                                                *)
C26_ConstantBeyondHeight ==
    (Synthesized /\ InControlRanges /\ height < HeightMax)
        => LET all == stops
               lastComputed == all[precision + 1]
               terminal == all[precision + 2]
           IN  /\ Len(all) = precision + 2
               /\ terminal = TerminalStop(reverse)
               /\ AlphaThousandths(lastComputed) = (IF reverse THEN 1000 ELSE 0)
               /\ AlphaThousandths(terminal) = AlphaThousandths(lastComputed)
               /\ lastComputed.pos.n = 10 * height
               /\ 10 * terminal.pos.n = 10 * HeightMax
               /\ lastComputed.pos.n < 10 * terminal.pos.n

(* sine in, whose value at t = 1 is just below 1, at height 33: the last   *)
(* computed stop still prints 1.000 with reverse, and the terminal stop 1  *)
C26_Witness ==
    /\ Synthesized
    /\ preset = "sine" /\ easingType = "in" /\ height = 33 /\ precision = 2
    /\ reverse
    /\ easedT[3] # One
    /\ StopText(stops[3]) = "rgba(0, 0, 0, 1.000) 33.0%"
    /\ StopText(stops[4]) = "rgba(0, 0, 0, 1) 100%"

-----------------------------------------------------------------------------
(* The controller is Tracking: the sequence has been seeded *)
Tracking == Len(history) # 0

(* C27: whenever the controller is Tracking, no commit timer is pending    *)
(* and no change is waiting to be observed, the live parameters are        *)
(* structurally equal to sequence[index]                                   *)
C27_SettledLiveEqualsCurrentEntry ==
    (Tracking /\ timers = {} /\ ~effectDue)
        => JSONstringify(currentState) = JSONstringify(At(history, historyIndex))

(* a change was made and undone before its commit: no timer is left, and   *)
(* the live parameters are again those of the entry at index                *)
C27_Witness ==
    /\ Tracking /\ timers = {} /\ ~effectDue
    /\ lastOp = "undo"
    /\ prev.burst # <<>>
    /\ prev.state # currentState
    /\ Len(history) = 2 /\ historyIndex = 0
    /\ currentState = history[1]

(* C28: undo, or redo, carried out while a user edit is pending (changed   *)
(* less than the debounce window ago, its commit timer not yet fired)      *)
(* cancels that commit: the call leaves the sequence as it is and makes    *)
(* sequence[index - 1], or sequence[index + 1], live; the observation it   *)
(* triggers clears the timer and schedules none, so that afterwards no     *)
(* timer is pending and the pending snapshot has not entered the history   *)
C28_RestoreCancelsPendingCommit ==
    /\ [][(Undo /\ historyIndex > 0 /\ burst # <<>>)
          => /\ timers # {} /\ \A t \in timers : t.state = burst[Len(burst)]
             /\ history' = history
             /\ historyIndex' = historyIndex - 1
             /\ currentState' = At(history, historyIndex - 1)
             /\ effectDue']_vars
    /\ [][(Redo /\ historyIndex < Len(history) - 1 /\ burst # <<>>)
          => /\ timers # {} /\ \A t \in timers : t.state = burst[Len(burst)]
             /\ history' = history
             /\ historyIndex' = historyIndex + 1
             /\ currentState' = At(history, historyIndex + 1)
             /\ effectDue']_vars
    /\ []((lastOp \in {"undo", "redo"} /\ prev.burst # <<>>
             /\ historyIndex # prev.historyIndex /\ ~effectDue)
          => /\ timers = {}
             /\ history = prev.history
             /\ currentState = At(prev.history, historyIndex)
             /\ historyIndex = prev.historyIndex + (IF lastOp = "undo" THEN -1 ELSE 1))

(* an edit was committed and undone, another edit was made, and redo       *)
(* before its commit discarded it: no timer, the sequence as before, the   *)
(* edit nowhere in it                                                      *)
C28_Witness ==
    /\ lastOp = "redo" /\ ~effectDue
    /\ prev.burst # <<>>
    /\ prev.historyIndex = 0 /\ historyIndex = 1
    /\ timers = {}
    /\ history = prev.history
    /\ prev.state \notin Range(history)
    /\ currentState = history[2]

(* C29: once the controller is Tracking the first entry of the sequence is *)
(* the default snapshot in every reachable state; no commit, truncation,   *)
(* undo, redo or reset replaces or removes it, and the undo that makes     *)
(* canUndo false restores the defaults                                     *)
C29_FirstEntryIsDefault ==
    /\ [](Tracking => history[1] = DEFAULT_STATE)
    /\ [][Tracking => (Tracking' /\ history'[1] = history[1])]_vars
    /\ [][(Undo /\ historyIndex = 1)
          => /\ currentState' = DEFAULT_STATE
             /\ ~CanUndo(historyIndex', history')]_vars
    /\ []((Tracking /\ ~CanUndo(historyIndex, history) /\ lastOp = "undo"
             /\ prev.historyIndex # historyIndex)
          => currentState = DEFAULT_STATE)

(* after two commits undo was pressed until it had nothing left: the       *)
(* defaults are live again and still the first entry                       *)
C29_Witness ==
    /\ lastOp = "undo" /\ ~effectDue
    /\ Len(history) = 3
    /\ historyIndex = 0 /\ prev.historyIndex = 1
    /\ history[1] = DEFAULT_STATE
    /\ history[2] # DEFAULT_STATE /\ history[3] # DEFAULT_STATE
    /\ currentState = DEFAULT_STATE
    /\ ~CanUndo(historyIndex, history)

====
